---- MODULE Spec2Model ----
(***************************************************************************)
(* graphene-validator: the traversal of a mutation's input tree            *)
(* (_unpack_input_tree), the rendering of error paths (_get_path,          *)
(* _to_camel_case) and the two-phase orchestration of the user-supplied    *)
(* validators (_do_validation, validated.Wrapper.mutate).                  *)
(*                                                                         *)
(* Values.  A Python value of the input tree is a record                   *)
(*   [k, s, items]: k is "null", "scalar", "obj" (a dict) or "list";       *)
(*   s is the payload of a scalar; items is the ordered content of a dict  *)
(*   (pairs [n |-> key, v |-> value], insertion order) or of a list        *)
(*   (pairs with n = <<>>).                                                *)
(* A field name is the sequence of its characters, so that the camelCase   *)
(* rendering can be computed.  A path segment is [t, name, i]: a key or a  *)
(* list index.                                                             *)
(***************************************************************************)
EXTENDS Integers, Sequences, FiniteSets, TLC

\* ------------------------------------------------------------------ bounds
\* Longest list of input objects in an enumerated input tree.
MaxListLen == 2
\* Most detail records one raised ValidationError expands into.
MaxDetails == 2
\* Most validator invocations of one call that do anything but return their
\* argument (raise, or return another value).
MaxActive == 2

\* `index=None` of add_fields_to_unpack, and the idx of a list of scalars.
None == -1

\* ------------------------------------------------------------------ values
Null == [k |-> "null", s |-> "", items |-> <<>>]
Scalar(x) == [k |-> "scalar", s |-> x, items |-> <<>>]
Obj(pairs) == [k |-> "obj", s |-> "", items |-> pairs]
List(vals) ==
  [k |-> "list", s |-> "", items |-> [j \in 1..Len(vals) |-> [n |-> <<>>, v |-> vals[j]]]]
Pair(name, val) == [n |-> name, v |-> val]
\* What an expression that raised evaluates to.
Fail == [k |-> "fail", s |-> "", items |-> <<>>]

Key(name) == [t |-> "key", name |-> name, i |-> 0]
Idx(i) == [t |-> "idx", name |-> <<>>, i |-> i]

\* ------------------------------------------------------------- field names
N_email == <<"e", "m", "a", "i", "l">>
N_people == <<"p", "e", "o", "p", "l", "e">>
N_numbers == <<"n", "u", "m", "b", "e", "r", "s">>
N_the_person == <<"t", "h", "e", "_", "p", "e", "r", "s", "o", "n">>
N_the_name == <<"t", "h", "e", "_", "n", "a", "m", "e">>
N_the_age == <<"t", "h", "e", "_", "a", "g", "e">>
N_groups == <<"g", "r", "o", "u", "p", "s">>
N_tags == <<"t", "a", "g", "s">>
N_address == <<"a", "d", "d", "r", "e", "s", "s">>
N_street == <<"s", "t", "r", "e", "e", "t">>
N_members == <<"m", "e", "m", "b", "e", "r", "s">>
N_codes == <<"c", "o", "d", "e", "s">>
N_owner == <<"o", "w", "n", "e", "r">>

\* ---------------------------------------------------------- _to_camel_case
Lowers ==
  <<"a", "b", "c", "d", "e", "f", "g", "h", "i", "j", "k", "l", "m",
    "n", "o", "p", "q", "r", "s", "t", "u", "v", "w", "x", "y", "z">>
Uppers ==
  <<"A", "B", "C", "D", "E", "F", "G", "H", "I", "J", "K", "L", "M",
    "N", "O", "P", "Q", "R", "S", "T", "U", "V", "W", "X", "Y", "Z">>

IsLower(c) == \E j \in 1..Len(Lowers) : Lowers[j] = c
IsUpper(c) == \E j \in 1..Len(Uppers) : Uppers[j] = c
ToUpper(c) ==
  IF IsLower(c) THEN Uppers[CHOOSE j \in 1..Len(Lowers) : Lowers[j] = c] ELSE c
ToLower(c) ==
  IF IsUpper(c) THEN Lowers[CHOOSE j \in 1..Len(Uppers) : Uppers[j] = c] ELSE c

\* str.title(): a cased character is upper-cased when the character before it
\* is uncased (or there is none) and lower-cased otherwise.
Title(word) ==
  [j \in 1..Len(word) |->
     IF j = 1 \/ ~(IsLower(word[j - 1]) \/ IsUpper(word[j - 1]))
     THEN ToUpper(word[j])
     ELSE ToLower(word[j])]

\* name.split("_"): the words between underscores, empty words included.
RECURSIVE SplitFrom(_, _, _)
SplitFrom(name, j, word) ==
  IF j > Len(name) THEN <<word>>
  ELSE IF name[j] = "_" THEN <<word>> \o SplitFrom(name, j + 1, <<>>)
  ELSE SplitFrom(name, j + 1, Append(word, name[j]))

RECURSIVE JoinWords(_, _)
JoinWords(words, j) ==
  IF j > Len(words) THEN <<>>
  ELSE (IF j > 1 THEN Title(words[j]) ELSE words[j]) \o JoinWords(words, j + 1)

to_camel_case(name) == JoinWords(SplitFrom(name, 1, <<>>), 1)

\* ----------------------------------------------------------------- schema
\* A declared field type is the chain of its wrappers down to a type name:
\* <<"List", "PersonalDataInput">> is graphene.List(PersonalDataInput),
\* <<"InputField", T>> is graphene.InputField(T), <<"String">> a scalar.
T_Root == "InputForTests"
T_Person == "PersonalDataInput"
T_Group == "GroupInput"
T_Address == "AddressInput"

ScalarTypes == {"String", "Int"}

\* getattr(validator, name): the suite's two input types, the second one
\* extended with a list of scalars and a nested object, and a third type
\* holding a list of the second, so that fields occur two levels below a
\* list element; and three fields declared with a NonNull wrapper: around a
\* list of objects, around the scalar of a list, around a nested object.
FieldType(validator, name) ==
  CASE validator = T_Root /\ name = N_email -> <<"String">>
    [] validator = T_Root /\ name = N_people -> <<"List", T_Person>>
    [] validator = T_Root /\ name = N_numbers -> <<"List", "Int">>
    [] validator = T_Root /\ name = N_the_person -> <<"InputField", T_Person>>
    [] validator = T_Root /\ name = N_groups -> <<"List", T_Group>>
    [] validator = T_Root /\ name = N_members -> <<"NonNull", "List", T_Person>>
    [] validator = T_Root /\ name = N_codes -> <<"List", "NonNull", "String">>
    [] validator = T_Root /\ name = N_owner -> <<"NonNull", T_Person>>
    [] validator = T_Person /\ name = N_the_name -> <<"String">>
    [] validator = T_Person /\ name = N_the_age -> <<"Int">>
    [] validator = T_Person /\ name = N_email -> <<"String">>
    [] validator = T_Person /\ name = N_tags -> <<"List", "String">>
    [] validator = T_Person /\ name = N_address -> <<"InputField", T_Address>>
    [] validator = T_Group /\ name = N_people -> <<"List", T_Person>>
    [] validator = T_Address /\ name = N_street -> <<"String">>

\* Mutant of HasFieldValidator: validate_<name> is looked up on every type.
HasFieldValidator_AnyType(validator, name) ==
  name \in {N_email, N_numbers, N_the_name, N_the_age, N_tags, N_street}

\* hasattr(validator, "validate_<name>"): the types' field validators.
HasFieldValidator(validator, name) ==
  \/ validator = T_Root /\ name \in {N_email, N_numbers}
  \/ validator = T_Person /\ name \in {N_the_name, N_the_age, N_tags}
  \/ validator = T_Address /\ name = N_street

\* hasattr(validator, "validate"): the types' whole-object validators.
HasValidate(validator) == validator \in {T_Root, T_Person}

\* The error kinds the field validators raise: the suite's, for two of them
\* also the base kind and a kind of several records, and for one a kind that
\* puts a path of its own into its record.
FieldErrorKinds(validator, name) ==
  CASE validator = T_Root /\ name = N_email -> {"InvalidEmailFormat", "ValidationError"}
    [] validator = T_Root /\ name = N_numbers ->
         {"NotInRange", "LengthNotInRange", "NameEqualsAge"}
    [] validator = T_Person /\ name = N_the_name -> {"EmptyString", "MultiError"}
    [] validator = T_Person /\ name = N_the_age -> {"NegativeValue"}
    [] validator = T_Person /\ name = N_tags -> {"NotInRange"}
    [] validator = T_Address /\ name = N_street -> {"EmptyString"}
    [] OTHER -> {}

\* The error kinds the whole-object validators raise.
ValidateErrorKinds(validator) ==
  CASE validator = T_Root -> {"NameAndAgeInEmail", "MultiError"}
    [] validator = T_Person -> {"NameEqualsAge", "ValidationError"}
    [] OTHER -> {}

\* _unwrap_validator: follow of_type while there is one.  List and NonNull
\* have of_type; InputField and the structural types have not.
RECURSIVE unwrap_validator(_)
unwrap_validator(ty) ==
  IF Len(ty) > 1 /\ ty[1] \in {"List", "NonNull"}
  THEN unwrap_validator(Tail(ty))
  ELSE ty

\* ------------------------------------------------------------ tree access
HasKey(obj, name) == \E j \in 1..Len(obj.items) : obj.items[j].n = name
KeyPos(obj, name) == CHOOSE j \in 1..Len(obj.items) : obj.items[j].n = name

\* obj[k]: a dict by an existing key, a list by a position it has; Fail is
\* the KeyError, IndexError or TypeError of anything else.
Subscript(obj, seg) ==
  IF obj.k = "obj" /\ seg.t = "key" /\ HasKey(obj, seg.name)
  THEN obj.items[KeyPos(obj, seg.name)].v
  ELSE IF obj.k = "list" /\ seg.t = "idx" /\ seg.i >= 0 /\ seg.i < Len(obj.items)
  THEN obj.items[seg.i + 1].v
  ELSE Fail

\* The value found by following every segment of a position.
RECURSIVE ValueAt(_, _)
ValueAt(tree, pos) ==
  IF pos = <<>> THEN tree
  ELSE LET nxt == Subscript(tree, Head(pos))
       IN IF nxt = Fail THEN Fail ELSE ValueAt(nxt, Tail(pos))

\* dict[name] = val: replaces the value of an existing key in place, appends
\* a new key at the end.
SetKey(obj, name, val) ==
  IF HasKey(obj, name)
  THEN [obj EXCEPT !.items[KeyPos(obj, name)].v = val]
  ELSE [obj EXCEPT !.items = Append(@, Pair(name, val))]

\* The tree after the object living at pos has become val (an in-place
\* change of a dict reached through references).
RECURSIVE SetAt(_, _, _)
SetAt(tree, pos, val) ==
  IF pos = <<>> THEN val
  ELSE LET seg == Head(pos)
           j == IF seg.t = "key" THEN KeyPos(tree, seg.name) ELSE seg.i + 1
       IN [tree EXCEPT !.items[j].v = SetAt(tree.items[j].v, Tail(pos), val)]

\* ---------------------------------------------------------------- _get_path
\* A queue entry is the tuple (name, value, validator, parent, idx) as a
\* record; parent is <<>> (None) or <<entry>>.  The ghost field `at` is the
\* position the value was read from, recorded when the entry is made.
NameTransform(name, camel_case) == IF camel_case THEN to_camel_case(name) ELSE name

\* `if pidx:` Python truthiness of the parent's index: None and 0 are false.
PidxInserted(pidx) == pidx /= None /\ pidx /= 0

RECURSIVE PathUp(_, _, _)
PathUp(parent, path, camel_case) ==
  IF parent = <<>> THEN path
  ELSE LET p == parent[1]
           path1 == <<Key(NameTransform(p.name, camel_case))>> \o path
           path2 == IF PidxInserted(p.idx) THEN <<Idx(p.idx)>> \o path1 ELSE path1
       IN PathUp(p.parent, path2, camel_case)

\* Mutant of get_path: the field's own index is tested for truth, as the
\* parent's is, so index 0 is left out.
get_path_truthy_idx(field, camel_case) ==
  PathUp(field.parent,
         IF field.idx /= None /\ field.idx /= 0
         THEN <<Idx(field.idx), Key(NameTransform(field.name, camel_case))>>
         ELSE <<Key(NameTransform(field.name, camel_case))>>,
         camel_case)

get_path(field, camel_case) ==
  PathUp(field.parent,
         IF field.idx /= None
         THEN <<Idx(field.idx), Key(NameTransform(field.name, camel_case))>>
         ELSE <<Key(NameTransform(field.name, camel_case))>>,
         camel_case)

\* `obj[k] if k else obj`: Python truthiness of a path segment.
Truthy(seg) == IF seg.t = "idx" THEN seg.i /= 0 ELSE seg.name /= <<>>

\* functools.reduce(lambda obj, k: obj[k] if k else obj, path, input_tree):
\* ok says whether every subscript succeeded, at is the position of the
\* object the reduction ends on.
RECURSIVE ReduceFrom(_, _, _, _)
ReduceFrom(obj, pos, path, j) ==
  IF j > Len(path) THEN [ok |-> TRUE, at |-> pos]
  ELSE IF ~Truthy(path[j]) THEN ReduceFrom(obj, pos, path, j + 1)
  ELSE LET nxt == Subscript(obj, path[j])
       IN IF nxt = Fail THEN [ok |-> FALSE, at |-> pos]
          ELSE ReduceFrom(nxt, Append(pos, path[j]), path, j + 1)

reduce_path(path, input_tree) == ReduceFrom(input_tree, <<>>, path, 1)

\* ----------------------------------------------------------- error kinds
\* ValidationError.error_details of the kinds a validator raises: the base
\* kind has none, a SingleValidationError has one record {code, meta}, the
\* suite's NameEqualsAge adds the path it was raised with, and a kind that
\* overrides error_details the same way may return several records.
N_name == <<"n", "a", "m", "e">>
Detail(code, meta) == [code |-> code, meta |-> meta, has_path |-> FALSE, path |-> <<>>]

ErrorKinds ==
  {"ValidationError", "EmptyString", "InvalidEmailFormat", "NegativeValue", "NotInRange",
   "LengthNotInRange", "NameEqualsAge", "NameAndAgeInEmail", "MultiError"}

\* NotInRange.meta: {"min": self.min, "max": self.max} as the sequence of its
\* keys and values.
range_meta(min, max) == <<"min", min, "max", max>>

error_details(kind) ==
  CASE kind = "ValidationError" -> <<>>
    [] kind \in {"EmptyString", "InvalidEmailFormat", "NegativeValue", "NameAndAgeInEmail"} ->
         <<Detail(kind, <<>>)>>
    [] kind = "NotInRange" -> <<Detail("NotInRange", range_meta("0", "9"))>>
    [] kind = "LengthNotInRange" -> <<Detail("LengthNotInRange", range_meta("2", "None"))>>
    [] kind = "NameEqualsAge" ->
         <<[Detail("NameEqualsAge", <<>>) EXCEPT !.has_path = TRUE, !.path = <<Key(N_name)>>]>>
    [] kind = "MultiError" -> [j \in 1..MaxDetails |-> Detail("MultiError", [m \in 1..j |-> "n"])]

\* Mutant of WithPath: a record that has a path keeps it (dict.setdefault).
WithPath_KeepsOwn(details, path) ==
  [j \in 1..Len(details) |->
     IF details[j].has_path THEN details[j]
     ELSE [details[j] EXCEPT !.has_path = TRUE, !.path = path]]

\* error_detail.update({"path": path}) for every record of a raised error.
WithPath(details, path) ==
  [j \in 1..Len(details) |-> [details[j] EXCEPT !.has_path = TRUE, !.path = path]]

\* ------------------------------------------------------------------ inputs
SeqsUpTo(S, n) == UNION {[1..m -> S] : m \in 0..n}
SeqsFromTo(S, lo, n) == UNION {[1..m -> S] : m \in lo..n}

Str == Scalar(" a")
\* What a field validator may return for a value: the value itself or
\* another one of its kind (str.strip(), a filtered list).
Returns(value) ==
  IF value.k = "scalar" THEN {value, Scalar("a")}
  ELSE IF value.k = "list" THEN {value, [value EXCEPT !.items = Append(@, Pair(<<>>, Scalar("a")))]}
  ELSE {value}

PersonNameAge == Obj(<<Pair(N_the_name, Str), Pair(N_the_age, Str)>>)
PersonName == Obj(<<Pair(N_the_name, Str)>>)
PersonTagsAddress ==
  Obj(<<Pair(N_tags, List(<<Str>>)), Pair(N_address, Obj(<<Pair(N_street, Str)>>))>>)
PersonNullAddress == Obj(<<Pair(N_address, Null), Pair(N_the_name, Str)>>)
PersonEmail == Obj(<<Pair(N_email, Str)>>)
PersonChoices == {Null, PersonNameAge, PersonTagsAddress}

PeopleLists == {List(l) : l \in SeqsUpTo(PersonChoices, MaxListLen)}
GroupChoices == {Null, Obj(<<Pair(N_people, List(<<PersonName, PersonName>>))>>)}
GroupLists == {List(l) : l \in SeqsFromTo(GroupChoices, 1, MaxListLen)}

\* The input trees of one call: the suite's requests and their variations
\* over the lists' contents.
Inputs ==
  {Null, Obj(<<Pair(N_email, Str)>>), Obj(<<Pair(N_numbers, List(<<Str>>))>>)}
  \cup {Obj(<<Pair(N_email, Str), Pair(N_people, l)>>) : l \in PeopleLists}
  \cup {Obj(<<Pair(N_people, List(l)), Pair(N_email, Str)>>) :
            l \in SeqsUpTo({Null, PersonNullAddress}, MaxListLen)}
  \cup {Obj(<<Pair(N_groups, l)>>) : l \in GroupLists}
  \cup {Obj(<<Pair(N_people, Null), Pair(N_email, Str)>>)}
  \cup {Obj(<<Pair(N_members, List(<<PersonName>>)), Pair(N_email, Str)>>),
        Obj(<<Pair(N_codes, List(<<Str>>)), Pair(N_email, Str)>>),
        Obj(<<Pair(N_owner, PersonName), Pair(N_email, Str)>>)}
  \cup {Obj(<<Pair(N_the_person, q), Pair(N_email, Str)>>) :
            q \in PersonChoices \cup {PersonNullAddress, PersonEmail}}

\* ------------------------------------------------------------------- state
VARIABLES
  pc,                   \* where the call is
  has_kwargs,           \* whether the mutation was called with an argument
  input_tree,           \* the input tree, changed in place by phase 1
  tree0,                \* ghost: the input tree as it was given
  fields_to_unpack,     \* the queue of _unpack_input_tree
  fields_to_validate,   \* the field tasks, in the order they were recorded
  subtrees_to_validate, \* the subtree tasks
  i,                    \* the position of the running for loop
  errors,               \* the detail records collected so far
  calls,                \* ghost: the validator invocations, in order
  active,               \* validator invocations that raised or transformed
  exc                   \* the exception that ended the call, "" for none

vars ==
  <<pc, has_kwargs, input_tree, tree0, fields_to_unpack, fields_to_validate,
    subtrees_to_validate, i, errors, calls, active, exc>>

\* input_arg.get_type(): the declared type of the mutation's argument.
root_validator == unwrap_validator(<<T_Root>>)

Entry(name, value, validator, parent, idx, at) ==
  [name |-> name, value |-> value, validator |-> validator, parent |-> parent,
   idx |-> idx, at |-> at]

\* add_fields_to_unpack: the entries of a dict's items, none for None.  The
\* ghost position of each is `at`, then the index if any, then its key.
add_fields_to_unpack(tree, validator_cls, parent, index, at) ==
  IF tree.k = "null" THEN <<>>
  ELSE [j \in 1..Len(tree.items) |->
          Entry(tree.items[j].n, tree.items[j].v, validator_cls, parent, index,
                at \o (IF index /= None THEN <<Idx(index)>> ELSE <<>>)
                   \o <<Key(tree.items[j].n)>>)]

\* Mutant of add_subtree_to_validate: no test for None.
add_subtree_unchecked(at, tree, validator) == <<[at |-> at, validator |-> validator]>>

\* add_subtree_to_validate: (tree, validator) unless tree is None.  The
\* reference to the subtree is its position in the input tree.
add_subtree_to_validate(at, tree, validator) ==
  IF tree.k = "null" THEN <<>> ELSE <<[at |-> at, validator |-> validator]>>

Init ==
  /\ pc = "call"
  /\ \/ has_kwargs = FALSE /\ input_tree = Null
     \/ has_kwargs = TRUE /\ input_tree \in Inputs
  /\ tree0 = input_tree
  /\ fields_to_unpack = <<>>
  /\ fields_to_validate = <<>>
  /\ subtrees_to_validate = <<>>
  /\ i = 1
  /\ errors = <<>>
  /\ calls = <<>>
  /\ active = 0
  /\ exc = ""

\* ------------------------------------------------- validated.Wrapper.mutate
\* `if kwargs:` hands the single input tree to _do_validation, which starts
\* _unpack_input_tree by queueing the root's items; without kwargs the
\* business logic is called at once.
WrapperMutate ==
  /\ pc = "call"
  /\ IF has_kwargs
     THEN /\ fields_to_unpack' =
               add_fields_to_unpack(input_tree, root_validator, <<>>, None, <<>>)
          /\ pc' = "unpack"
     ELSE /\ pc' = "business"
          /\ UNCHANGED fields_to_unpack
  /\ UNCHANGED <<has_kwargs, input_tree, tree0, fields_to_validate,
                 subtrees_to_validate, i, errors, calls, active, exc>>

\* --------------------------------------------------------- _unpack_input_tree
\* The subtree tasks and queue entries of the elements of a list of objects,
\* element by element (for idx, item in enumerate(value)).
RECURSIVE UnpackItems(_, _, _, _)
UnpackItems(current, inner_validator, idx, acc) ==
  IF idx >= Len(current.value.items) THEN acc
  ELSE LET item == current.value.items[idx + 1].v
           at == Append(current.at, Idx(idx))
       IN UnpackItems(current, inner_validator, idx + 1,
            [subtrees |-> acc.subtrees \o add_subtree_to_validate(at, item, inner_validator),
             fields |-> acc.fields
                        \o add_fields_to_unpack(item, inner_validator, <<current>>, idx,
                                                current.at)])

\* Mutant of scalar_list_task: one task per element of the list, with the
\* element's index.
scalar_list_per_element(current, validator) ==
  [j \in 1..Len(current.value.items) |->
     Entry(current.name, current.value.items[j].v, validator, current.parent, j - 1,
           Append(current.at, Idx(j - 1)))]

\* fields_to_validate.append((name, value, validator, parent, None)): the one
\* task of a list of scalars, its value the whole list.
scalar_list_task(current, validator) ==
  <<Entry(current.name, current.value, validator, current.parent, None, current.at)>>

\* One turn of `while fields_to_unpack`: what the popped entry adds to the
\* three lists, or the exception it raises.
unpack_entry(current) ==
  LET validator == unwrap_validator(current.validator)
      field_type == FieldType(validator[1], current.name)
      nothing == [exc |-> "", fields |-> <<>>, subtrees |-> <<>>, unpack |-> <<>>]
  IN
  IF field_type[1] = "InputField"
  THEN LET inner_validator == unwrap_validator(Tail(field_type))
       IN [nothing EXCEPT
             !.subtrees = add_subtree_to_validate(current.at, current.value, inner_validator),
             !.unpack = add_fields_to_unpack(current.value, inner_validator, <<current>>,
                                             None, current.at)]
  ELSE IF field_type[1] = "List"
  THEN IF field_type[2] \in {"List", "NonNull"}
       THEN \* field_type.of_type._meta: a wrapper has no _meta
            [nothing EXCEPT !.exc = "AttributeError"]
       ELSE IF field_type[2] \in ScalarTypes
       THEN [nothing EXCEPT !.fields = scalar_list_task(current, validator)]
       ELSE IF current.value.k # "list"
       THEN \* enumerate(None)
            [nothing EXCEPT !.exc = "TypeError"]
       ELSE LET inner_validator == unwrap_validator(field_type)
                got == UnpackItems(current, inner_validator, 0,
                                   [subtrees |-> <<>>, fields |-> <<>>])
            IN [nothing EXCEPT !.subtrees = got.subtrees, !.unpack = got.fields]
  ELSE [nothing EXCEPT
          !.fields = <<Entry(current.name, current.value, validator, current.parent,
                             current.idx, current.at)>>]

\* Mutant of extend_queue: the new entries go to the front (depth first).
extend_queue_front(rest, new) == new \o rest

\* fields_to_unpack.extend(...) after fields_to_unpack.pop(0): first in,
\* first out.
extend_queue(rest, new) == rest \o new

UnpackStep ==
  /\ pc = "unpack"
  /\ fields_to_unpack # <<>>
  /\ LET r == unpack_entry(Head(fields_to_unpack))
     IN IF r.exc # ""
        THEN /\ pc' = "crashed"
             /\ exc' = r.exc
             /\ fields_to_unpack' = Tail(fields_to_unpack)
             /\ UNCHANGED <<fields_to_validate, subtrees_to_validate>>
        ELSE /\ fields_to_unpack' = extend_queue(Tail(fields_to_unpack), r.unpack)
             /\ fields_to_validate' = fields_to_validate \o r.fields
             /\ subtrees_to_validate' = subtrees_to_validate \o r.subtrees
             /\ UNCHANGED <<pc, exc>>
  /\ UNCHANGED <<has_kwargs, input_tree, tree0, i, errors, calls, active>>

\* The queue is empty: _unpack_input_tree returns and phase 1 starts.
UnpackReturn ==
  /\ pc = "unpack"
  /\ fields_to_unpack = <<>>
  /\ pc' = "fields"
  /\ i' = 1
  /\ UNCHANGED <<has_kwargs, input_tree, tree0, fields_to_unpack, fields_to_validate,
                 subtrees_to_validate, errors, calls, active, exc>>

\* -------------------------------------------------- _do_validation, phase 1
\* Ghost record of one validator invocation: the callable (kind, type, field
\* name, whether the type defines it), the argument and the position it was
\* read from, and the outcome: out is "returned" (ret is the value), "raised"
\* (recs are the records that joined the list) or "failed".
Call(kind, validator, name, arg, at, user, out, ret, recs) ==
  [kind |-> kind, validator |-> validator, name |-> name, arg |-> arg, at |-> at,
   user |-> user, out |-> out, ret |-> ret, recs |-> recs]

\* The `new_value != value` branch: the container is looked up by reducing
\* the path without its last segment, then container[name] = new_value.
\* Assigning by a string key into anything but a dict raises TypeError.
apply_transform(ftv, new_value, tree) ==
  LET path == get_path(ftv, FALSE)
      ref == reduce_path(SubSeq(path, 1, Len(path) - 1), tree)
      field == ValueAt(tree, ref.at)
  IN IF ~ref.ok THEN [exc |-> "TypeError", tree |-> tree]
     ELSE IF field.k # "obj" THEN [exc |-> "TypeError", tree |-> tree]
     ELSE [exc |-> "", tree |-> SetAt(tree, ref.at, SetKey(field, ftv.name, new_value))]

\* The validator returns: validate_<name> of the task's type if it has one,
\* else the default lambda, which returns its argument.
FieldReturns ==
  /\ pc = "fields"
  /\ i <= Len(fields_to_validate)
  /\ LET ftv == fields_to_validate[i]
         user == HasFieldValidator(ftv.validator[1], ftv.name)
     IN \E new_value \in (IF user THEN Returns(ftv.value) ELSE {ftv.value}) :
          /\ new_value # ftv.value => active < MaxActive
          /\ active' = IF new_value # ftv.value THEN active + 1 ELSE active
          /\ calls' = Append(calls, Call("field", ftv.validator[1], ftv.name, ftv.value,
                                         ftv.at, user, "returned", new_value, <<>>))
          /\ IF new_value # ftv.value
             THEN LET r == apply_transform(ftv, new_value, input_tree)
                  IN IF r.exc # ""
                     THEN /\ pc' = "crashed"
                          /\ exc' = r.exc
                          /\ UNCHANGED <<input_tree, i>>
                     ELSE /\ input_tree' = r.tree
                          /\ i' = i + 1
                          /\ UNCHANGED <<pc, exc>>
             ELSE /\ i' = i + 1
                  /\ UNCHANGED <<input_tree, pc, exc>>
  /\ UNCHANGED <<has_kwargs, tree0, fields_to_unpack, fields_to_validate,
                 subtrees_to_validate, errors>>

\* Mutant of FieldRaises: the first ValidationError ends phase 1.
FieldRaises_StopsLoop ==
  /\ pc = "fields"
  /\ i <= Len(fields_to_validate)
  /\ active < MaxActive
  /\ LET ftv == fields_to_validate[i]
     IN /\ HasFieldValidator(ftv.validator[1], ftv.name)
        /\ \E kind \in FieldErrorKinds(ftv.validator[1], ftv.name) :
             LET recs == WithPath(error_details(kind), get_path(ftv, TRUE))
             IN /\ errors' = errors \o recs
                /\ calls' = Append(calls, Call("field", ftv.validator[1], ftv.name,
                                               ftv.value, ftv.at, TRUE, "raised", Fail,
                                               recs))
  /\ active' = active + 1
  /\ i' = 1
  /\ pc' = "finish"
  /\ UNCHANGED <<has_kwargs, input_tree, tree0, fields_to_unpack, fields_to_validate,
                 subtrees_to_validate, exc>>

\* The validator raises a ValidationError: its detail records get the
\* task's camelCase path and join the list.
FieldRaises ==
  /\ pc = "fields"
  /\ i <= Len(fields_to_validate)
  /\ active < MaxActive
  /\ LET ftv == fields_to_validate[i]
     IN /\ HasFieldValidator(ftv.validator[1], ftv.name)
        /\ \E kind \in FieldErrorKinds(ftv.validator[1], ftv.name) :
             LET recs == WithPath(error_details(kind), get_path(ftv, TRUE))
             IN /\ errors' = errors \o recs
                /\ calls' = Append(calls, Call("field", ftv.validator[1], ftv.name,
                                               ftv.value, ftv.at, TRUE, "raised", Fail,
                                               recs))
  /\ active' = active + 1
  /\ i' = i + 1
  /\ UNCHANGED <<pc, has_kwargs, input_tree, tree0, fields_to_unpack, fields_to_validate,
                 subtrees_to_validate, exc>>

\* Mutant of FieldFails: the exception is swallowed and the loop goes on.
FieldFails_Swallowed ==
  /\ pc = "fields"
  /\ i <= Len(fields_to_validate)
  /\ active < MaxActive
  /\ LET ftv == fields_to_validate[i]
     IN /\ HasFieldValidator(ftv.validator[1], ftv.name)
        /\ calls' = Append(calls, Call("field", ftv.validator[1], ftv.name, ftv.value,
                                       ftv.at, TRUE, "failed", Fail, <<>>))
  /\ active' = active + 1
  /\ i' = i + 1
  /\ UNCHANGED <<pc, has_kwargs, input_tree, tree0, fields_to_unpack, fields_to_validate,
                 subtrees_to_validate, errors, exc>>

\* The validator raises something that is no ValidationError: not caught.
FieldFails ==
  /\ pc = "fields"
  /\ i <= Len(fields_to_validate)
  /\ active < MaxActive
  /\ LET ftv == fields_to_validate[i]
     IN /\ HasFieldValidator(ftv.validator[1], ftv.name)
        /\ calls' = Append(calls, Call("field", ftv.validator[1], ftv.name, ftv.value,
                                       ftv.at, TRUE, "failed", Fail, <<>>))
  /\ active' = active + 1
  /\ pc' = "crashed"
  /\ exc' = "Exception"
  /\ UNCHANGED <<has_kwargs, input_tree, tree0, fields_to_unpack, fields_to_validate,
                 subtrees_to_validate, i, errors>>

\* Mutant of phase2_runs: phase 2 runs whatever phase 1 found.
phase2_runs_always(errs) == TRUE

\* `if not errors:` whether phase 2 runs.
phase2_runs(errs) == errs = <<>>

\* The end of phase 1 and `if not errors:`: without errors the root joins
\* the subtree tasks and phase 2 starts, else phase 2 is skipped.
FieldsDone ==
  /\ pc = "fields"
  /\ i > Len(fields_to_validate)
  /\ IF phase2_runs(errors)
     THEN /\ subtrees_to_validate' =
               Append(subtrees_to_validate, [at |-> <<>>, validator |-> root_validator])
          /\ pc' = "subtrees"
     ELSE /\ pc' = "finish"
          /\ UNCHANGED subtrees_to_validate
  /\ i' = 1
  /\ UNCHANGED <<has_kwargs, input_tree, tree0, fields_to_unpack, fields_to_validate,
                 errors, calls, active, exc>>

\* -------------------------------------------------- _do_validation, phase 2
\* Mutant of SubtreeReturns: the validator is given the subtree as it was
\* when the call began.
SubtreeReturns_Stale ==
  /\ pc = "subtrees"
  /\ i <= Len(subtrees_to_validate)
  /\ LET stv == subtrees_to_validate[i]
         value == ValueAt(tree0, stv.at)
     IN calls' = Append(calls, Call("subtree", stv.validator[1], <<>>, value, stv.at,
                                    HasValidate(stv.validator[1]), "returned", value,
                                    <<>>))
  /\ i' = i + 1
  /\ UNCHANGED <<pc, has_kwargs, input_tree, tree0, fields_to_unpack, fields_to_validate,
                 subtrees_to_validate, errors, active, exc>>

\* What a whole-object validator may return for a value: the value itself or
\* another object (a normalised copy of a dict).
SubtreeResults(value) ==
  IF value.k = "obj" THEN {value, SetKey(value, N_email, Scalar("a"))} ELSE {value}

\* The subtree validator returns: `validate` of the task's type if it has
\* one, else the default lambda.  The call is an expression statement: what
\* it returns is dropped.
SubtreeReturns ==
  /\ pc = "subtrees"
  /\ i <= Len(subtrees_to_validate)
  /\ LET stv == subtrees_to_validate[i]
         value == ValueAt(input_tree, stv.at)
         user == HasValidate(stv.validator[1])
     IN \E result \in (IF user THEN SubtreeResults(value) ELSE {value}) :
          /\ result # value => active < MaxActive
          /\ active' = IF result # value THEN active + 1 ELSE active
          /\ calls' = Append(calls, Call("subtree", stv.validator[1], <<>>, value, stv.at,
                                         user, "returned", result, <<>>))
  /\ i' = i + 1
  /\ UNCHANGED <<pc, has_kwargs, input_tree, tree0, fields_to_unpack, fields_to_validate,
                 subtrees_to_validate, errors, exc>>

\* The subtree validator raises a ValidationError: its detail records join
\* the list as they are.
SubtreeRaises ==
  /\ pc = "subtrees"
  /\ i <= Len(subtrees_to_validate)
  /\ active < MaxActive
  /\ LET stv == subtrees_to_validate[i]
     IN /\ HasValidate(stv.validator[1])
        /\ \E kind \in ValidateErrorKinds(stv.validator[1]) :
             LET recs == error_details(kind)
             IN /\ errors' = errors \o recs
                /\ calls' = Append(calls, Call("subtree", stv.validator[1], <<>>,
                                               ValueAt(input_tree, stv.at), stv.at, TRUE,
                                               "raised", Fail, recs))
  /\ active' = active + 1
  /\ i' = i + 1
  /\ UNCHANGED <<pc, has_kwargs, input_tree, tree0, fields_to_unpack, fields_to_validate,
                 subtrees_to_validate, exc>>

\* The subtree validator raises something that is no ValidationError.
SubtreeFails ==
  /\ pc = "subtrees"
  /\ i <= Len(subtrees_to_validate)
  /\ active < MaxActive
  /\ LET stv == subtrees_to_validate[i]
     IN /\ HasValidate(stv.validator[1])
        /\ calls' = Append(calls, Call("subtree", stv.validator[1], <<>>,
                                       ValueAt(input_tree, stv.at), stv.at, TRUE,
                                       "failed", Fail, <<>>))
  /\ active' = active + 1
  /\ pc' = "crashed"
  /\ exc' = "Exception"
  /\ UNCHANGED <<has_kwargs, input_tree, tree0, fields_to_unpack, fields_to_validate,
                 subtrees_to_validate, i, errors>>

SubtreesDone ==
  /\ pc = "subtrees"
  /\ i > Len(subtrees_to_validate)
  /\ pc' = "finish"
  /\ UNCHANGED <<has_kwargs, input_tree, tree0, fields_to_unpack, fields_to_validate,
                 subtrees_to_validate, i, errors, calls, active, exc>>

\* ValidationGraphQLError(message="ValidationError",
\*                        extensions={"validationErrors": errors})
aggregate_error(errs) ==
  [message |-> "ValidationError", extensions |-> [validationErrors |-> errs]]

\* Mutant of Finish: the call goes on to the business logic whatever was
\* collected.
Finish_AlwaysForwards ==
  /\ pc = "finish"
  /\ pc' = "business"
  /\ UNCHANGED <<has_kwargs, input_tree, tree0, fields_to_unpack, fields_to_validate,
                 subtrees_to_validate, i, errors, calls, active, exc>>

\* `if errors: raise ValidationGraphQLError(...)`, else _do_validation
\* returns to Wrapper.mutate.
Finish ==
  /\ pc = "finish"
  /\ IF errors # <<>>
     THEN pc' = "raised" /\ exc' = "ValidationGraphQLError"
     ELSE pc' = "business" /\ UNCHANGED exc
  /\ UNCHANGED <<has_kwargs, input_tree, tree0, fields_to_unpack, fields_to_validate,
                 subtrees_to_validate, i, errors, calls, active>>

\* return cls.mutate(parent, info, **kwargs)
BusinessLogic ==
  /\ pc = "business"
  /\ pc' = "done"
  /\ UNCHANGED <<has_kwargs, input_tree, tree0, fields_to_unpack, fields_to_validate,
                 subtrees_to_validate, i, errors, calls, active, exc>>

Next ==
  \/ WrapperMutate
  \/ UnpackStep
  \/ UnpackReturn
  \/ FieldReturns
  \/ FieldRaises
  \/ FieldFails
  \/ FieldsDone
  \/ SubtreeReturns
  \/ SubtreeRaises
  \/ SubtreeFails
  \/ SubtreesDone
  \/ Finish
  \/ BusinessLogic

Spec == Init /\ [][Next]_vars

\* ==================================================================
\* Properties
\* ==================================================================
FieldCalls == SelectSeq(calls, LAMBDA c : c.kind = "field")
SubtreeCalls == SelectSeq(calls, LAMBDA c : c.kind = "subtree")

RECURSIVE AllRecs(_)
AllRecs(cs) == IF cs = <<>> THEN <<>> ELSE Head(cs).recs \o AllRecs(Tail(cs))

IsPrefix(a, b) == Len(a) <= Len(b) /\ SubSeq(b, 1, Len(a)) = a

\* C1 -- Field-error gating: once a field validator has contributed an error
\* record in phase 1, no subtree validator is invoked in that call, neither a
\* nested one nor the root's.
C1_FieldErrorGating ==
  (\E j \in 1..Len(calls) : calls[j].kind = "field" /\ calls[j].recs # <<>>)
    => \A j \in 1..Len(calls) : calls[j].kind # "subtree"

\* A call whose phase 1 left an error record, that had subtree tasks to run,
\* and that ended by raising the aggregate.
C1_Witness ==
  /\ pc = "raised"
  /\ subtrees_to_validate # <<>>
  /\ \E j \in 1..Len(calls) : calls[j].kind = "field" /\ calls[j].recs # <<>>

\* The tree with the value returned by every transforming field validator
\* put at the position its argument was read from, and nothing else changed.
RECURSIVE Transformed(_, _)
Transformed(tree, cs) ==
  IF cs = <<>> THEN tree
  ELSE LET c == Head(cs)
       IN Transformed(IF c.kind = "field" /\ c.out = "returned" /\ c.ret # c.arg
                      THEN SetAt(tree, c.at, c.ret)
                      ELSE tree,
                      Tail(cs))

\* C2 -- Transform propagation: every field validator that returned a value
\* unequal to its argument has that value at the field's position of the
\* input tree, at any depth and any list index, index 0 included, and every
\* other position is as it was given.
C2_TransformPropagation ==
  /\ \A j \in 1..Len(calls) :
       (calls[j].kind = "field" /\ calls[j].out = "returned" /\ calls[j].ret # calls[j].arg)
         => ValueAt(input_tree, calls[j].at) = calls[j].ret
  /\ input_tree = Transformed(tree0, calls)

\* C3 -- Path of a field of a list element: a raising validator of scalar
\* field f of element i of top-level list L gets the path [camel(L), i,
\* camel(f)], and one of top-level scalar f the path [camel(f)].
C3_ListElementPath ==
  \A j \in 1..Len(calls) :
    LET c == calls[j]
    IN (c.kind = "field" /\ c.out = "raised" /\ c.arg.k = "scalar") =>
         \A r \in 1..Len(c.recs) :
           /\ (Len(c.at) = 1 =>
                 c.recs[r].path = <<Key(to_camel_case(c.at[1].name))>>)
           /\ (Len(c.at) = 3 /\ c.at[2].t = "idx" =>
                 c.recs[r].path = <<Key(to_camel_case(c.at[1].name)), Idx(c.at[2].i),
                                    Key(to_camel_case(c.at[3].name))>>)
           /\ (c.at = <<Key(N_people), Idx(0), Key(N_the_name)>> =>
                 c.recs[r].path = <<Key(N_people), Idx(0),
                                    Key(<<"t", "h", "e", "N", "a", "m", "e">>)>>)

\* The aggregate of the suite's nested request: the second record is the one
\* of people[0].the_name.
C3_Witness ==
  /\ pc = "raised"
  /\ Len(errors) = 2
  /\ errors[1].path = <<Key(N_email)>>
  /\ errors[2].path = <<Key(N_people), Idx(0), Key(<<"t", "h", "e", "N", "a", "m", "e">>)>>

\* C4 -- Ancestor index 0 is kept: for a scalar field two or more levels
\* below a list element, the rendered path holds the index of every ancestor
\* element, 0 like any other, right after the name of its list field.
C4_AncestorIndexKept ==
  \A j \in 1..Len(fields_to_validate) :
    LET ftv == fields_to_validate[j]
    IN (ftv.value.k = "scalar" /\ \E m \in 1..(Len(ftv.at) - 2) : ftv.at[m].t = "idx")
         => get_path(ftv, FALSE) = ftv.at

\* C5 -- Every field-level path locates its field: following the segments of
\* the path of a field task from the root of the given tree reaches the value
\* handed to the validator, and the path of a list of scalars of element i of
\* a list of objects holds that index.
C5_PathLocatesField ==
  \A j \in 1..Len(fields_to_validate) :
    LET ftv == fields_to_validate[j]
        path == get_path(ftv, FALSE)
    IN /\ ValueAt(tree0, path) = ftv.value
       /\ path = ftv.at

\* What has happened once phase 1 is over: the loop over the field tasks ran
\* to its end.
Phase1Over == has_kwargs /\ pc \in {"subtrees", "finish", "raised", "business", "done"}
\* Phase 2 ran, and to its end.
Phase2Over ==
  /\ has_kwargs
  /\ pc \in {"finish", "raised", "business", "done"}
  /\ AllRecs(FieldCalls) = <<>>

SameTask(c, ftv) ==
  /\ c.at = ftv.at
  /\ c.arg = ftv.value
  /\ c.name = ftv.name
  /\ c.validator = ftv.validator[1]

\* C6 -- All violations are collected: when phase 1 is over, the validator of
\* every field task has been invoked exactly once, whatever the earlier ones
\* raised, and every record of every raise is in the list; when phase 2 is
\* over the same holds of every subtree task, the root's included.
C6_AllCollected ==
  /\ errors = AllRecs(calls)
  /\ Phase1Over =>
       /\ Len(FieldCalls) = Len(fields_to_validate)
       /\ \A j \in 1..Len(FieldCalls) : SameTask(FieldCalls[j], fields_to_validate[j])
  /\ Phase2Over =>
       /\ Len(SubtreeCalls) = Len(subtrees_to_validate)
       /\ Len(subtrees_to_validate) >= 1
       /\ subtrees_to_validate[Len(subtrees_to_validate)].at = <<>>
       /\ \A j \in 1..Len(SubtreeCalls) :
            /\ SubtreeCalls[j].at = subtrees_to_validate[j].at
            /\ SubtreeCalls[j].validator = subtrees_to_validate[j].validator[1]

\* Two field validators raised, the second after the first, and both are in
\* the aggregate.
C6_Witness ==
  /\ pc = "raised"
  /\ Len(FieldCalls) >= 3
  /\ FieldCalls[1].out = "raised" /\ FieldCalls[1].recs # <<>>
  /\ FieldCalls[2].out = "raised" /\ FieldCalls[2].recs # <<>>
  /\ Len(errors) = Len(FieldCalls[1].recs) + Len(FieldCalls[2].recs)

\* The nesting depth of a position (its keys) and the ordinals of its
\* segments in the given tree: the place of a key in its dict, of an element
\* in its list.
Depth(pos) == Cardinality({m \in 1..Len(pos) : pos[m].t = "key"})
Ordinals(pos) ==
  [m \in 1..Len(pos) |->
     IF pos[m].t = "idx" THEN pos[m].i + 1
     ELSE KeyPos(ValueAt(tree0, SubSeq(pos, 1, m - 1)), pos[m].name)]
LexLess(a, b) ==
  \E m \in 1..Len(a) :
    /\ m <= Len(b)
    /\ a[m] < b[m]
    /\ \A q \in 1..(m - 1) : a[q] = b[q]

\* The depth and the ordinals of every task of a list, as a sequence.
RECURSIVE SortKeys(_)
SortKeys(tasks) ==
  IF tasks = <<>> THEN <<>>
  ELSE <<[depth |-> Depth(Head(tasks).at), ords |-> Ordinals(Head(tasks).at) \o <<>>]>>
       \o SortKeys(Tail(tasks))

\* C7 -- Error order is breadth-first discovery order: a field task of depth
\* d precedes every one of depth d+1, tasks of one depth follow the order of
\* the input mappings and the list indices, validators are invoked in task
\* order and the records join the list in that order.
C7_BreadthFirstOrder ==
  /\ LET keys == SortKeys(fields_to_validate)
     IN \A j, m \in 1..Len(fields_to_validate) :
          j < m =>
            \/ keys[j].depth < keys[m].depth
            \/ keys[j].depth = keys[m].depth /\ LexLess(keys[j].ords, keys[m].ords)
  /\ Len(FieldCalls) <= Len(fields_to_validate)
  /\ \A j \in 1..Len(FieldCalls) : FieldCalls[j].at = fields_to_validate[j].at
  /\ IsPrefix(AllRecs(FieldCalls), errors)

\* The list field comes first in the mapping and the top-level scalar is
\* still reported first.
C7_Witness ==
  /\ tree0 = Obj(<<Pair(N_people, List(<<PersonNullAddress>>)), Pair(N_email, Str)>>)
  /\ pc = "raised"
  /\ Len(errors) = 2
  /\ errors[1].path = <<Key(N_email)>>
  /\ errors[2].path = <<Key(N_people), Idx(0), Key(to_camel_case(N_the_name))>>

\* C8 -- A raised ValidationError always fails the validation: every raise of
\* a validator contributes at least one record, so a call in which one raised
\* never reaches the business logic.
C8_RaiseAlwaysFails ==
  /\ \A j \in 1..Len(calls) : calls[j].out = "raised" => calls[j].recs # <<>>
  /\ pc \in {"business", "done"} => \A j \in 1..Len(calls) : calls[j].out # "raised"

\* The fields and list elements of the given tree by their declared kinds,
\* stated on the tree itself: for every non-null object, each of its items
\* as "object" (a nested input object), "objlist" (a list of input objects),
\* "scalar" or "scalarlist", and each element of a list of objects as
\* "element" with its index; idx is the index of the element that owns a
\* field, None for none.  A field declared with a NonNull wrapper is
\* "wrapped", whatever it wraps, and its content is not listed.
Decl(kind, at, type, value, idx) ==
  [kind |-> kind, at |-> at, type |-> type, value |-> value, idx |-> idx]

RECURSIVE Decls(_, _, _, _)
Decls(tree, type, at, idx) ==
  IF tree.k # "obj" THEN {}
  ELSE UNION {
    LET n == tree.items[j].n
        v == tree.items[j].v
        ft == FieldType(type, n)
        here == Append(at, Key(n))
    IN IF \E m \in 1..Len(ft) : ft[m] = "NonNull"
       THEN {Decl("wrapped", here, type, v, idx)}
       ELSE IF ft[1] = "InputField"
       THEN {Decl("object", here, ft[2], v, idx)} \cup Decls(v, ft[2], here, None)
       ELSE IF ft[1] = "List" /\ ft[2] \notin ScalarTypes
       THEN {Decl("objlist", here, ft[2], v, idx)}
            \cup UNION {
                 {Decl("element", Append(here, Idx(e - 1)), ft[2], v.items[e].v, e - 1)}
                 \cup Decls(v.items[e].v, ft[2], Append(here, Idx(e - 1)), e - 1)
                 : e \in 1..Len(v.items) }
       ELSE IF ft[1] = "List"
       THEN {Decl("scalarlist", here, type, v, idx)}
       ELSE {Decl("scalar", here, type, v, idx)}
    : j \in 1..Len(tree.items) }

GivenDecls == Decls(tree0, T_Root, <<>>, None)

\* _unpack_input_tree has returned.
Unpacked == has_kwargs /\ pc \notin {"call", "unpack"} /\ ~(pc = "crashed" /\ calls = <<>>)
\* _unpack_input_tree has raised.
UnpackRaised == pc = "crashed" /\ calls = <<>>

TasksAt(tasks, at) == {j \in 1..Len(tasks) : tasks[j].at = at}
TasksBelow(tasks, at) == {j \in 1..Len(tasks) : IsPrefix(at, tasks[j].at)}

\* C9 -- Null nested object and null list element are skipped: no subtree
\* task and no field task is recorded for them and unpacking does not raise;
\* every non-null nested object and element has its subtree task, and its
\* scalar fields their field tasks, with the element's own 0-based position
\* as index.
C9_NullsSkipped ==
  LET decls == GivenDecls
  IN
  /\ UnpackRaised =>
       \E d \in decls : (d.kind = "objlist" /\ d.value = Null) \/ d.kind = "wrapped"
  /\ Unpacked =>
       \A d \in decls :
         /\ (d.kind \in {"object", "element"} /\ d.value = Null) =>
               /\ TasksAt(subtrees_to_validate, d.at) = {}
               /\ TasksBelow(fields_to_validate, d.at) = {}
               /\ TasksBelow(subtrees_to_validate, d.at) = {}
         /\ (d.kind \in {"object", "element"} /\ d.value # Null) =>
               /\ Cardinality(TasksAt(subtrees_to_validate, d.at)) = 1
               /\ \A j \in TasksAt(subtrees_to_validate, d.at) :
                    subtrees_to_validate[j].validator = <<d.type>>
         /\ d.kind = "scalar" =>
               /\ Cardinality(TasksAt(fields_to_validate, d.at)) = 1
               /\ \A j \in TasksAt(fields_to_validate, d.at) :
                    /\ fields_to_validate[j].value = d.value
                    /\ fields_to_validate[j].idx = d.idx

\* A list whose first element is null: the second element's field has its
\* task, with index 1, and the null has none.
C9_Witness ==
  /\ Unpacked
  /\ tree0 = Obj(<<Pair(N_people, List(<<Null, PersonNullAddress>>)), Pair(N_email, Str)>>)
  /\ Len(subtrees_to_validate) >= 1
  /\ subtrees_to_validate[1].at = <<Key(N_people), Idx(1)>>
  /\ \E j \in 1..Len(fields_to_validate) :
       /\ fields_to_validate[j].at = <<Key(N_people), Idx(1), Key(N_the_name)>>
       /\ fields_to_validate[j].idx = 1

\* C10 -- Top-level null input: a call whose input tree is null invokes no
\* validator on it, the root type's validate included, collects no error and
\* does not raise.
C10_TopLevelNull ==
  (has_kwargs /\ tree0 = Null) =>
    /\ \A j \in 1..Len(calls) : ~(calls[j].user /\ calls[j].arg = Null)
    /\ errors = <<>>
    /\ pc \notin {"raised", "crashed"}

\* C11 -- Null list tolerance: a field declared as a list of input objects
\* whose value is null does not make the unpacking raise; it leaves no
\* subtree task and no field task, and the other entries of the queue are
\* still turned into their tasks.
C11_NullListTolerated ==
  \A d \in GivenDecls :
    (d.kind = "objlist" /\ d.value = Null) =>
      /\ ~UnpackRaised
      /\ Unpacked =>
           /\ TasksBelow(fields_to_validate, d.at) = {}
           /\ TasksBelow(subtrees_to_validate, d.at) = {}
           /\ \A e \in GivenDecls :
                e.kind = "scalar" => TasksAt(fields_to_validate, e.at) # {}

FieldCallsBelow(at) ==
  {j \in 1..Len(calls) : calls[j].kind = "field" /\ IsPrefix(at, calls[j].at)}

\* C12 -- A list of scalars is atomic: it has exactly one field task, whose
\* value is the whole list, and none per element; its validator is invoked
\* once, with the whole list; a raise of a single-record kind leaves exactly
\* one record, whose path ends with the field's name, and is [name] for a
\* top-level field.
C12_ScalarListAtomic ==
  \A d \in GivenDecls :
    d.kind = "scalarlist" =>
      /\ Unpacked =>
           /\ Cardinality(TasksAt(fields_to_validate, d.at)) = 1
           /\ TasksBelow(fields_to_validate, d.at) = TasksAt(fields_to_validate, d.at)
           /\ \A j \in TasksAt(fields_to_validate, d.at) :
                fields_to_validate[j].value = d.value
      /\ Cardinality(FieldCallsBelow(d.at)) <= 1
      /\ Phase1Over => Cardinality(FieldCallsBelow(d.at)) = 1
      /\ \A j \in FieldCallsBelow(d.at) :
           LET c == calls[j]
               name == d.at[Len(d.at)].name
           IN /\ c.at = d.at
              /\ c.arg = d.value
              /\ c.out = "raised" =>
                   /\ Len(c.recs) = 1
                   /\ c.recs[1].has_path
                   /\ c.recs[1].path # <<>>
                   /\ c.recs[1].path[Len(c.recs[1].path)] = Key(to_camel_case(name))
                   /\ Len(d.at) = 1 => c.recs[1].path = <<Key(to_camel_case(name))>>
                   /\ errors = AllRecs(calls)

\* The suite's request of a too short list: one record, with path [numbers].
C12_Witness ==
  /\ pc = "raised"
  /\ tree0 = Obj(<<Pair(N_numbers, List(<<Str>>))>>)
  /\ Len(calls) = 1
  /\ calls[1].arg = List(<<Str>>)
  /\ Len(errors) = 1
  /\ errors[1].code = "LengthNotInRange"
  /\ errors[1].path = <<Key(N_numbers)>>

\* The display rendering of a position: every key in camelCase.
CamelPath(at) ==
  [m \in 1..Len(at) |->
     IF at[m].t = "key" THEN Key(to_camel_case(at[m].name)) ELSE at[m]]

\* C13 -- Multi-instance independence: the validator of a field task is the
\* one of the type that owns the field's object, the identity if that type
\* has none; the nested the_person.email never reaches the root type's
\* validate_email, and the records of a field outside any list carry that
\* field's own path.
C13_OwnTypeValidator ==
  LET owners ==
        {<<d.at, d.type>> :
           d \in {e \in GivenDecls : e.kind \in {"scalar", "scalarlist", "wrapped"}}}
  IN
  \A j \in 1..Len(calls) :
    LET c == calls[j]
    IN c.kind = "field" =>
         /\ <<c.at, c.validator>> \in owners
         /\ c.at = <<Key(N_the_person), Key(N_email)>> =>
              c.validator = T_Person /\ ~c.user
         /\ c.at = <<Key(N_email)>> => c.validator = T_Root /\ c.user
         /\ ~c.user => c.out = "returned" /\ c.ret = c.arg
         /\ (\A m \in 1..Len(c.at) : c.at[m].t = "key") =>
              \A r \in 1..Len(c.recs) : c.recs[r].path = CamelPath(c.at)

\* The top-level email is refused while the nested one, of a type without
\* validate_email, went through the identity: the aggregate has the one
\* record of the top-level field.
C13_Witness ==
  /\ pc = "raised"
  /\ tree0 = Obj(<<Pair(N_the_person, PersonEmail), Pair(N_email, Str)>>)
  /\ Len(calls) = 2
  /\ calls[1].at = <<Key(N_email)>> /\ calls[1].out = "raised"
  /\ calls[2].at = <<Key(N_the_person), Key(N_email)>>
  /\ calls[2].out = "returned" /\ ~calls[2].user
  /\ Len(errors) = 1
  /\ errors[1].path = <<Key(N_email)>>

\* C14 -- Every detail record of the aggregate has a path: each record,
\* from a field validator or from a subtree or root validator, carries a
\* code and a path of names and indices.
C14_EveryRecordHasPath ==
  \A j \in 1..Len(errors) :
    /\ errors[j].code \in ErrorKinds
    /\ errors[j].has_path
    /\ \A m \in 1..Len(errors[j].path) : errors[j].path[m].t \in {"key", "idx"}

\* The payload each single-record kind declares.
DeclaredMeta(code) ==
  CASE code = "NotInRange" -> <<"min", "0", "max", "9">>
    [] code = "LengthNotInRange" -> <<"min", "2", "max", "None">>
    [] OTHER -> <<>>

\* C15 -- Error shape: the aggregate has the message "ValidationError" and
\* is raised exactly when the collected list is not empty; a record of a
\* single-record kind has the kind's name as code and the kind's payload as
\* meta ({min, max} with the raised values for NotInRange); the path of a
\* field-level record is the one rendered for its task, whatever path the
\* raiser had put in.
C15_ErrorShape ==
  /\ pc = "raised" =>
       /\ exc = "ValidationGraphQLError"
       /\ errors # <<>>
       /\ aggregate_error(errors).message = "ValidationError"
       /\ aggregate_error(errors).extensions.validationErrors = AllRecs(calls)
  /\ pc \in {"business", "done"} => errors = <<>>
  /\ \A j \in 1..Len(calls) :
       LET c == calls[j]
           kinds == IF c.kind = "field" THEN FieldErrorKinds(c.validator, c.name)
                    ELSE ValidateErrorKinds(c.validator)
       IN \A r \in 1..Len(c.recs) :
            /\ c.recs[r].code \in kinds
            /\ c.recs[r].code # "MultiError" => c.recs[r].meta = DeclaredMeta(c.recs[r].code)
  /\ \A j \in 1..Len(FieldCalls) :
       \A r \in 1..Len(FieldCalls[j].recs) :
         /\ j <= Len(fields_to_validate)
         /\ FieldCalls[j].recs[r].has_path
         /\ FieldCalls[j].recs[r].path = get_path(fields_to_validate[j], TRUE)

\* A field validator raised a kind that puts its own path ["name"] into its
\* record: the record of the aggregate has the field's path instead.
C15_Witness ==
  /\ pc = "raised"
  /\ Len(errors) = 1
  /\ errors[1].code = "NameEqualsAge"
  /\ errors[1].path = <<Key(N_numbers)>>
  /\ error_details("NameEqualsAge")[1].path = <<Key(N_name)>>

\* _do_validation returned normally, or was not called for want of
\* arguments: nothing was collected or raised, and with arguments both
\* loops ran to their end and every transform is in the tree.
ValidationPassed ==
  /\ exc = ""
  /\ errors = <<>>
  /\ has_kwargs =>
       /\ Len(FieldCalls) = Len(fields_to_validate)
       /\ Len(subtrees_to_validate) >= 1
       /\ Len(SubtreeCalls) = Len(subtrees_to_validate)
       /\ \A j \in 1..Len(calls) :
            (calls[j].kind = "field" /\ calls[j].out = "returned"
               /\ calls[j].ret # calls[j].arg)
              => ValueAt(input_tree, calls[j].at) = calls[j].ret

\* C16 -- Integration hook ordering: the business logic is invoked at most
\* once per call, only after the orchestrator has finished both phases and
\* never after the aggregate was raised, and it receives the input tree with
\* the transforms of the field validators.
C16_HookOrdering ==
  [][/\ pc' = "business" => ValidationPassed'
     /\ pc' = "done" =>
          /\ pc \in {"business", "done"}
          /\ input_tree' = input_tree
          /\ ValidationPassed'
     /\ pc = "business" => pc' \in {"business", "done"}
     /\ pc = "done" => pc' = "done"]_vars

\* The business logic ran after both phases, on a tree that holds a
\* transform.
C16_Witness ==
  /\ pc = "done"
  /\ has_kwargs
  /\ SubtreeCalls # <<>>
  /\ \E j \in 1..Len(calls) :
       /\ calls[j].kind = "field" /\ calls[j].out = "returned"
       /\ calls[j].ret # calls[j].arg
       /\ ValueAt(input_tree, calls[j].at) = calls[j].ret
       /\ ValueAt(tree0, calls[j].at) # calls[j].ret

\* C17 -- Root validation is last and sees the final field values: subtree
\* validators are invoked in the order of the subtree tasks, the root's after
\* all of them, none before every field validator has run, and each receives
\* its subtree with every transform of phase 1 inside it.
C17_RootLastFinalValues ==
  /\ \A j, m \in 1..Len(calls) :
       (calls[j].kind = "subtree" /\ calls[m].kind = "field") => m < j
  /\ SubtreeCalls # <<>> =>
       /\ Len(FieldCalls) = Len(fields_to_validate)
       /\ Len(SubtreeCalls) <= Len(subtrees_to_validate)
       /\ subtrees_to_validate[Len(subtrees_to_validate)].at = <<>>
  /\ LET final == Transformed(tree0, FieldCalls)
     IN \A j \in 1..Len(SubtreeCalls) :
          /\ SubtreeCalls[j].at = subtrees_to_validate[j].at
          /\ SubtreeCalls[j].validator = subtrees_to_validate[j].validator[1]
          /\ SubtreeCalls[j].at = <<>> <=> j = Len(subtrees_to_validate)
          /\ SubtreeCalls[j].arg = ValueAt(final, SubtreeCalls[j].at)

\* A nested object's validate and then the root's both received the value a
\* field validator had returned for a field of the nested object.
C17_Witness ==
  /\ pc = "done"
  /\ Len(SubtreeCalls) = 2
  /\ SubtreeCalls[1].at = <<Key(N_the_person)>>
  /\ SubtreeCalls[1].user
  /\ SubtreeCalls[1].arg # ValueAt(tree0, <<Key(N_the_person)>>)
  /\ SubtreeCalls[2].at = <<>>
  /\ ValueAt(SubtreeCalls[2].arg, <<Key(N_the_person)>>) = SubtreeCalls[1].arg

\* C18 -- Subtree transform: when a subtree validator has returned, without
\* raising, a value unequal to the subtree it received, that value is at the
\* subtree's position of the input tree.
C18_SubtreeTransformApplied ==
  calls # <<>> =>
    LET c == calls[Len(calls)]
    IN (c.kind = "subtree" /\ c.out = "returned" /\ c.ret # c.arg)
         => ValueAt(input_tree, c.at) = c.ret

\* C19 -- Non-validation exceptions are not caught: a validator's exception
\* that is no ValidationError ends the call at once with that exception, it
\* leaves no record, no aggregate is raised for it and no validator and no
\* business logic runs after it; a ValidationError of a validator never ends
\* the call itself.
C19_ForeignExceptionsPropagate ==
  /\ \A j \in 1..Len(calls) :
       /\ calls[j].out = "failed" =>
            /\ j = Len(calls)
            /\ calls[j].recs = <<>>
            /\ pc = "crashed"
            /\ exc = "Exception"
       /\ (calls[j].out = "raised" /\ j = Len(calls)) => pc # "crashed"
  /\ errors = AllRecs(calls)
  /\ exc \notin ErrorKinds
  /\ pc = "crashed" <=> exc \in {"Exception", "TypeError", "AttributeError"}
  /\ pc = "raised" <=> exc = "ValidationGraphQLError"

\* A field validator failed after an earlier one had left a record: the
\* call ended with the exception, not with the aggregate, and the later
\* field tasks were never run.
C19_Witness ==
  /\ pc = "crashed"
  /\ exc = "Exception"
  /\ errors # <<>>
  /\ Len(calls) = 2
  /\ calls[2].out = "failed"
  /\ Len(fields_to_validate) > 2

\* C20 -- No change on valid input, and a raising validator changes nothing:
\* when every field validator has returned its argument and no validator
\* has raised, the call neither raises nor changes the tree; and the field of
\* a validator that raised a ValidationError has the value it had.
C20_NoChangeOnValid ==
  /\ (/\ has_kwargs
      /\ \A j \in 1..Len(calls) :
           /\ calls[j].out = "returned"
           /\ calls[j].kind = "field" => calls[j].ret = calls[j].arg)
       => (pc \notin {"crashed", "raised"} /\ exc = "" /\ input_tree = tree0)
  /\ \A j \in 1..Len(calls) :
       (calls[j].kind = "field" /\ calls[j].out = "raised")
         => ValueAt(input_tree, calls[j].at) = calls[j].arg

\* A declared type without its NonNull wrappers.
Strip(ft) == SelectSeq(ft, LAMBDA w : w # "NonNull")

\* C21 -- Wrappers are stripped before the structural kind is inspected: a
\* field declared with a NonNull wrapper is unpacked as its declaration
\* without the wrapper is: a list of objects and a nested object have their
\* subtree tasks and the field tasks of their scalar fields and no field
\* task of their own, a list of scalars has its one field task, and the
\* classification does not raise.
C21_WrappersStripped ==
  \A d \in GivenDecls :
    d.kind = "wrapped" =>
      LET ft == Strip(FieldType(d.type, d.at[Len(d.at)].name))
          elements == IF ft[1] = "List" /\ ft[2] \notin ScalarTypes /\ d.value.k = "list"
                      THEN {e \in 1..Len(d.value.items) : d.value.items[e].v # Null}
                      ELSE {}
      IN /\ ~UnpackRaised
         /\ Unpacked =>
              IF ft[1] = "List" /\ ft[2] \in ScalarTypes
              THEN /\ Cardinality(TasksAt(fields_to_validate, d.at)) = 1
                   /\ \A j \in TasksAt(fields_to_validate, d.at) :
                        fields_to_validate[j].value = d.value
              ELSE IF ft[1] = "List"
              THEN /\ TasksAt(fields_to_validate, d.at) = {}
                   /\ \A e \in elements :
                        LET at == Append(d.at, Idx(e - 1))
                            item == d.value.items[e].v
                        IN /\ Cardinality(TasksAt(subtrees_to_validate, at)) = 1
                           /\ \A m \in 1..Len(item.items) :
                                TasksBelow(fields_to_validate,
                                           Append(at, Key(item.items[m].n))) # {}
              ELSE /\ TasksAt(fields_to_validate, d.at) = {}
                   /\ d.value # Null =>
                        /\ Cardinality(TasksAt(subtrees_to_validate, d.at)) = 1
                        /\ \A m \in 1..Len(d.value.items) :
                             TasksBelow(fields_to_validate,
                                        Append(d.at, Key(d.value.items[m].n))) # {}

\* C22 -- Unpacking terminates and is complete: the loop is never left by an
\* exception and leaves the queue empty; no pair is queued twice or queued
\* again after it became a task; every scalar and list-of-scalars field has
\* exactly one field task and every field task is the one of such a field;
\* every non-null nested object and list element has exactly one subtree
\* task; the tree is as it was given until a validator has run.
C22_UnpackComplete ==
  LET decls == GivenDecls
      leaves == {d.at : d \in {e \in decls : e.kind \in {"scalar", "scalarlist"}}}
      nodes == {d.at : d \in {e \in decls : e.kind \in {"object", "element"}
                                            /\ e.value # Null}}
  IN
  /\ ~UnpackRaised
  /\ calls = <<>> => input_tree = tree0
  /\ \A j, m \in 1..Len(fields_to_unpack) :
       j # m => fields_to_unpack[j].at # fields_to_unpack[m].at
  /\ \A j \in 1..Len(fields_to_unpack) :
       /\ TasksAt(fields_to_validate, fields_to_unpack[j].at) = {}
       /\ ValueAt(tree0, fields_to_unpack[j].at) = fields_to_unpack[j].value
  /\ Unpacked =>
       /\ fields_to_unpack = <<>>
       /\ \A at \in leaves : Cardinality(TasksAt(fields_to_validate, at)) = 1
       /\ \A j \in 1..Len(fields_to_validate) : fields_to_validate[j].at \in leaves
       /\ \A at \in nodes : Cardinality(TasksAt(subtrees_to_validate, at)) = 1
       /\ \A j \in 1..Len(subtrees_to_validate) :
            subtrees_to_validate[j].at \in nodes \cup {<<>>}

====
